---- MODULE Spec2Model ----
(***************************************************************************)
(* Windowed Transfer-event ingestion for Starknet (x402sync).              *)
(*                                                                         *)
(* Two implementations of the same pipeline are modelled, selected by      *)
(* `profile`:                                                              *)
(*   "rpc"     fetchStarknetRpc + parseStarknetEvents + retryWithBackoff   *)
(*             (factor 2, 3 attempts, pLimit(5))                           *)
(*   "apibara" fetchViaRpc + parseApibaraEvents + retryWithBackoff         *)
(*             (factor 1.5, 2 attempts, pLimit(10))                        *)
(*                                                                         *)
(* One action is one run-to-completion step of the JavaScript event loop:  *)
(* the arrival of a remote response (or the firing of a backoff timer)     *)
(* together with every synchronous statement and promise continuation that *)
(* follows it up to the next await of a remote call or a timer.            *)
(***************************************************************************)
EXTENDS Integers, Sequences, FiniteSets, TLC

VARIABLES
    profile,            \* which implementation runs: "rpc" or "apibara"
    limit,              \* config.limit, the results cap of the window
    facilitatorAddress, \* facilitatorConfig.address (a hex string)
    window,             \* the arguments since and now of the fetch function, in ms
    previous,           \* events and records of the run before this one
    range,              \* fromBlock, toBlock and the readings they came from
    pc,                 \* position of the window run
    allEvents,          \* raw events accumulated by the pagination loop
    continuationToken,  \* token of the last getEvents response
    pageCount,          \* pages fetched so far
    getEventsCalls,     \* getEvents queries issued so far
    moreDataWarned,     \* the 'more data available' warning was logged
    passKind,           \* the pass the limiter works on: "none", "blocks", "txs"
    passKeys,           \* uniqueBlockNumbers / uniqueTxHashes of that pass
    units,              \* per key: the lookup unit handed to limit(...)
    queue,              \* p-limit's queue of units not yet started
    blockCache,         \* Map block_number -> block
    txCache,            \* Map transaction_hash -> transaction
    transferEvents,     \* records returned by parseStarknetEvents / parseApibaraEvents
    result,             \* value the window run returned to its caller
    runError,           \* what made the window run throw ("none" if it did not)
    remote,             \* the remote's own record of the getEvents traffic
    wrapper,            \* fetchApibara around the pipeline: token, pipelines run
    orphans,            \* lookups of an abandoned primary pipeline, by state
    log                 \* advisory log entries written so far, by kind

vars == <<profile, limit, facilitatorAddress, window, previous, range, pc, allEvents,
          continuationToken, pageCount, getEventsCalls, moreDataWarned, passKind,
          passKeys, units, queue, blockCache, txCache, transferEvents, result,
          runError, remote, wrapper, orphans, log>>

(***************************************************************************)
(* Bounds of the model.                                                    *)
(***************************************************************************)
\* Lookups of the keys 1..MaxFlaky are the ones the remote may fail.
MaxFlaky == 2
\* Longest page the remote returns in the full-run and pagination models.
MaxPageLen == 2
\* Largest config.limit drawn for a window.
MaxLimit == 3

\* The largest results cap of the runs through the three entry points.
FetchLimit == 1
MaxLatest == 3

(***************************************************************************)
(* Program constants.                                                      *)
(***************************************************************************)
MAX_PAGES == 10
MaxChunkSize == 1000
MsPerSecond == 1000
STARKNET_BLOCK_TIME_SECONDS == 6
RpcConcurrency == 5
ApibaraConcurrency == 10
RpcMaxRetries == 3
ApibaraMaxRetries == 2
RpcLimit == 2000
ApibaraLimit == 5000
RpcBaseDelay == 1500
ApibaraBaseDelay == 500
\* amountHigh << BigInt(128)
AmountShift == 128
\* Number(amount): the significand of a double holds 53 bits.
SignificandBits == 53

Profiles == {"rpc", "apibara"}

Concurrency(p) == IF p = "rpc" THEN RpcConcurrency ELSE ApibaraConcurrency

MaxRetries(p) == IF p = "rpc" THEN RpcMaxRetries ELSE ApibaraMaxRetries

Min(a, b) == IF a <= b THEN a ELSE b

\* A chunk size that follows config.limit without the ceiling.
ChunkSize_Uncapped(lim) == lim

\* chunk_size: Math.min(config.limit, 1000)
ChunkSize(lim) == Min(lim, MaxChunkSize)

(***************************************************************************)
(* Felts.  A felt arrives as a hex string; the model keeps the characters  *)
(* after the "0x" prefix as a sequence of one-character strings.           *)
(***************************************************************************)
HexChars == <<"0", "1", "2", "3", "4", "5", "6", "7", "8", "9",
              "a", "b", "c", "d", "e", "f">>

UpperHexChars == <<"0", "1", "2", "3", "4", "5", "6", "7", "8", "9",
                   "A", "B", "C", "D", "E", "F">>

HexVal(c) ==
    CHOOSE v \in 0..15 : HexChars[v + 1] = c \/ UpperHexChars[v + 1] = c

RECURSIVE toBigInt(_)
\* num.toBigInt of a hex string: the number its digits denote.
toBigInt(s) ==
    IF s = <<>> THEN 0
    ELSE 16 * toBigInt(SubSeq(s, 1, Len(s) - 1)) + HexVal(s[Len(s)])

RECURSIVE toHex(_)
\* num.toHex of a number: lower-case digits without leading zeros ("0x0" for 0).
toHex(n) ==
    IF n < 16 THEN <<HexChars[n + 1]>>
    ELSE Append(toHex(n \div 16), HexChars[(n % 16) + 1])

\* Whether num.toBigInt accepts the string: hex digits, at least one.
ValidHexChar(c) == \E v \in 1..16 : HexChars[v] = c \/ UpperHexChars[v] = c

IsFelt(s) == s # <<>> /\ \A i \in 1..Len(s) : ValidHexChar(s[i])

(***************************************************************************)
(* Amounts.  A 128-bit limb does not fit the integers of the checker, so   *)
(* the bigint of an amount is kept as its binary digits, most significant  *)
(* first and without leading zeros (the empty sequence is 0).              *)
(***************************************************************************)
RECURSIVE Bits(_)
\* The binary digits of a natural number.
Bits(n) == IF n = 0 THEN <<>> ELSE Append(Bits(n \div 2), n % 2)

\* Drop the leading zeros.
StripZeroBits(bs) ==
    IF \A i \in 1..Len(bs) : bs[i] = 0 THEN <<>>
    ELSE LET first == CHOOSE i \in 1..Len(bs) :
                          bs[i] = 1 /\ \A j \in 1..(i - 1) : bs[j] = 0
         IN  SubSeq(bs, first, Len(bs))

Zeros(n) == [i \in 1..n |-> 0]

\* Binary digit k (1..4, most significant first) of a hex digit.
NibbleBit(c, k) ==
    LET v == HexVal(c)
    IN  CASE k = 1 -> v \div 8
          [] k = 2 -> (v \div 4) % 2
          [] k = 3 -> (v \div 2) % 2
          [] OTHER -> v % 2

HexBits(s) == [i \in 1..(4 * Len(s)) |-> NibbleBit(s[((i - 1) \div 4) + 1], ((i - 1) % 4) + 1)]

\* num.toBigInt of the hex string of an amount limb.
toBigIntBits(s) == StripZeroBits(HexBits(s))

\* bs + 1
Increment(bs) ==
    IF \A i \in 1..Len(bs) : bs[i] = 1 THEN <<1>> \o Zeros(Len(bs))
    ELSE LET k == CHOOSE i \in 1..Len(bs) :
                      bs[i] = 0 /\ \A j \in (i + 1)..Len(bs) : bs[j] = 1
         IN  SubSeq(bs, 1, k - 1) \o <<1>> \o Zeros(Len(bs) - k)

\* low + (high << shift) for a low limb below 2^shift, as the limbs of a
\* serialised u256 are: the digits of high followed by the shift digits of low.
LimbsJoined(low, high, shift) ==
    IF high = <<>> THEN low ELSE high \o Zeros(shift - Len(low)) \o low

\* Number(amount): the double nearest to the bigint (ties to even), as the
\* binary digits of the integer that double holds.  A u256 is far below the
\* largest double, so the result is finite.
Number(bs) ==
    IF Len(bs) <= SignificandBits THEN bs
    ELSE LET kept == SubSeq(bs, 1, SignificandBits)
             rest == SubSeq(bs, SignificandBits + 1, Len(bs))
             sticky == \E i \in 2..Len(rest) : rest[i] = 1
             up == rest[1] = 1 /\ (sticky \/ kept[SignificandBits] = 1)
             rounded == IF up THEN Increment(kept) ELSE kept
         IN  rounded \o Zeros(Len(rest))

(***************************************************************************)
(* The remote.                                                             *)
(***************************************************************************)
NoToken == "undefined"
Tokens == {"tokA", "tokB"}

\* Messages of the errors a remote call may fail with.
RateLimitMessages ==
    {"Rate limit exceeded", "RPC error -32097", "HTTP 429 Too Many Requests",
     "exceeded its compute units per second capacity"}
OtherMessages == {"fetch failed: ECONNRESET"}
ErrorMessages == RateLimitMessages \cup OtherMessages

\* errorMsg.includes('Rate limit') || includes('-32097') || includes('429')
\* || includes('compute units per second')
IsRateLimit(msg) ==
    \/ msg = "Rate limit exceeded"
    \/ msg = "RPC error -32097"
    \/ msg = "HTTP 429 Too Many Requests"
    \/ msg = "exceeded its compute units per second capacity"

\* The block getBlockWithTxHashes(n) answers with.
BlockOf(n) == [block_number |-> n, timestamp |-> 1000 + 6 * n]

\* A field the transaction does not carry.
NoField == <<>>
hAAA == <<"a", "a", "a">>
hBBB == <<"b", "b", "b">>
hCCC == <<"c", "c", "c">>
hDDD == <<"d", "d", "d">>

\* The transaction getTransactionByHash(h) answers with: an invoke transaction
\* carries sender_address, an older one account_address, and some kinds of
\* transaction (every fourth here) carry neither.
TxOf(h) ==
    IF h % 2 = 1
    THEN [transaction_hash |-> h, sender_address |-> hAAA, account_address |-> NoField]
    ELSE IF h % 4 = 2
    THEN [transaction_hash |-> h, sender_address |-> NoField, account_address |-> hCCC]
    ELSE [transaction_hash |-> h, sender_address |-> NoField, account_address |-> NoField]

Selector == <<"9", "9">>

\* facilitatorConfig.token.address, the contract whose events are queried.
TokenAddress == <<"7", "0", "c">>

\* Raw events the remote's log holds in the full-run model.
EvIndexed ==
    [block_number |-> 1, transaction_hash |-> 1,
     keys |-> <<Selector, hAAA, hBBB>>, data |-> <<<<"6", "4">>, <<"0">>>>]
EvPacked ==
    [block_number |-> 2, transaction_hash |-> 2,
     keys |-> <<Selector>>, data |-> <<hCCC, hDDD, <<"c", "8">>, <<"0">>>>]
EvShort ==
    [block_number |-> 2, transaction_hash |-> 1,
     keys |-> <<Selector>>, data |-> <<hAAA>>]

EventPool == {EvIndexed, EvPacked, EvShort}

\* Pages of at most n events.
Pages(n) == UNION {[1..k -> EventPool] : k \in 0..n}

(***************************************************************************)
(* retryWithBackoff.                                                       *)
(***************************************************************************)
\* retryWithBackoff with the exhaustion branch left out: a failure that is not
\* retried is rethrown.
RetryDecision_ThrowsWhenExhausted(p, attempt, isRateLimit) ==
    IF isRateLimit /\ attempt < MaxRetries(p) - 1 THEN "sleep" ELSE "throw"

\* What the catch block does with a failure of the attempt with index
\* `attempt`: "sleep" and go round the loop, "null" (return null) or "throw".
RetryDecision(p, attempt, isRateLimit) ==
    IF isRateLimit /\ attempt < MaxRetries(p) - 1 THEN "sleep"
    ELSE IF attempt = MaxRetries(p) - 1 THEN "null"
    ELSE "throw"

BaseDelay(p) == IF p = "rpc" THEN RpcBaseDelay ELSE ApibaraBaseDelay

RECURSIVE Pow(_, _)
Pow(b, k) == IF k = 0 THEN 1 ELSE b * Pow(b, k - 1)

\* A backoff that waits the base delay every time.
Delay_Constant(p, attempt) == BaseDelay(p)

\* baseDelay * Math.pow(2, attempt) / baseDelay * Math.pow(1.5, attempt), in
\* the whole milliseconds setTimeout waits.
Delay(p, attempt) ==
    IF p = "rpc" THEN BaseDelay(p) * Pow(2, attempt)
    ELSE (BaseDelay(p) * Pow(3, attempt)) \div Pow(2, attempt)

(***************************************************************************)
(* The limiter (p-limit) and the lookup units.                             *)
(***************************************************************************)
\* A unit is the closure handed to limit(...) for one key.  st is "queued",
\* "calling" (a remote call is out), "sleeping" (in the backoff timer), or how
\* it ended: "ok", "null" (retryWithBackoff returned null), "thrown".  attempt
\* is the loop index, calls the invocations of fn, sleeps the timers started,
\* errors the classes of the failures caught so far, oldest first, delays the
\* milliseconds of the timers started, oldest first.
QueuedUnit(k) ==
    [key |-> k, st |-> "queued", attempt |-> 0, calls |-> 0, sleeps |-> 0,
     errors |-> <<>>, delays |-> <<>>]

InFlightStates == {"calling", "sleeping"}
EndStates == {"ok", "null", "thrown"}

ActiveCount(us) == Cardinality({i \in DOMAIN us : us[i].st \in InFlightStates})

\* A limiter that counts only the units with a call out: a unit asleep in its
\* backoff gives its slot away.
MayStart_SleepersFreeSlot(p, us) ==
    Cardinality({i \in DOMAIN us : us[i].st = "calling"}) < Concurrency(p)

\* Whether the limiter may start the unit at the head of its queue.
MayStart(p, us) == ActiveCount(us) < Concurrency(p)

RECURSIVE Dispatch(_, _, _)
\* p-limit: start queued units, in queue order, while a slot is free.  A unit
\* that starts runs up to its first await: it issues attempt 0 of its lookup.
Dispatch(p, us, q) ==
    IF q = <<>> \/ ~MayStart(p, us) THEN [units |-> us, queue |-> q]
    ELSE Dispatch(p,
                  [us EXCEPT ![Head(q)] = [@ EXCEPT !.st = "calling", !.calls = 1]],
                  Tail(q))

\* keys.map(k => limit(async () => ...)): one unit per element of keys.
BeginPass(p, keys) ==
    Dispatch(p, [i \in 1..Len(keys) |-> QueuedUnit(keys[i])], [i \in 1..Len(keys) |-> i])

RECURSIVE Unique(_)
\* [...new Set(xs)]: the distinct elements in order of first occurrence.
Unique(xs) ==
    IF xs = <<>> THEN <<>>
    ELSE LET front == Unique(SubSeq(xs, 1, Len(xs) - 1))
             x == xs[Len(xs)]
         IN  IF \E i \in 1..Len(front) : front[i] = x THEN front
             ELSE Append(front, x)

Range(xs) == {xs[i] : i \in 1..Len(xs)}

\* The block numbers of the events without the Set: one per event.
uniqueBlockNumbers_NoDedup(events) == [i \in 1..Len(events) |-> events[i].block_number]

uniqueBlockNumbers(events) == Unique([i \in 1..Len(events) |-> events[i].block_number])

uniqueTxHashes(events) == Unique([i \in 1..Len(events) |-> events[i].transaction_hash])

\* Map.set
MapSet(m, k, v) == [x \in DOMAIN m \cup {k} |-> IF x = k THEN v ELSE m[x]]

EmptyMap == [x \in {} |-> 0]

\* Whether the remote may fail the lookup of key k.
CanFail(k) == k <= MaxFlaky

(***************************************************************************)
(* The decoder.                                                            *)
(***************************************************************************)
\* The null a decoder returns for an event it skips.
Null == [null |-> TRUE]

\* new Date(): the wall clock at the time of decoding.
CurrentTime == [clock |-> "wall"]

\* new Date(block.timestamp * 1000)
BlockTime(block) == [clock |-> "chain", ms |-> block.timestamp * 1000]

\* The exception a decoder throws: num.toBigInt of a string that is no number,
\* or event.data[0] of an event without data.
Thrown == [thrown |-> TRUE]

\* Whether the event carries a data array.
HasData(event) == "data" \in DOMAIN event

\* event.data[i] || '0x0' (i is the JavaScript index)
DataOrZero(event, i) == IF i + 1 <= Len(event.data) THEN event.data[i + 1] ELSE <<"0">>

\* amountLow + (amountHigh << BigInt(128))
u256FromFelts(low, high) ==
    LimbsJoined(toBigIntBits(low), toBigIntBits(high), AmountShift)

\* A submitter read from sender_address alone.
TransactionFrom_SenderOnly(txs, event, fallback) ==
    IF event.transaction_hash \notin DOMAIN txs THEN fallback
    ELSE IF txs[event.transaction_hash].sender_address # NoField
    THEN txs[event.transaction_hash].sender_address
    ELSE fallback

\* tx.sender_address || tx.account_address || transactionFrom
TransactionFrom(txs, event, fallback) ==
    IF event.transaction_hash \notin DOMAIN txs THEN fallback
    ELSE LET tx == txs[event.transaction_hash]
         IN  IF tx.sender_address # NoField THEN tx.sender_address
             ELSE IF tx.account_address # NoField THEN tx.account_address
             ELSE fallback

\* The record built at the end of parseTransferEventWithCache / parseTransferEvent.
TransferRecord(event, eventIndex, from, to, low, high, blocks, txs, facAddr) ==
    [transaction_from |-> toHex(toBigInt(TransactionFrom(txs, event, facAddr))),
     sender |-> toHex(toBigInt(from)),
     recipient |-> toHex(toBigInt(to)),
     amount |-> Number(u256FromFelts(low, high)),
     block_timestamp |->
        IF event.block_number \in DOMAIN blocks
        THEN BlockTime(blocks[event.block_number])
        ELSE CurrentTime,
     tx_hash |-> event.transaction_hash,
     log_index |-> eventIndex]

\* The conversions of the chosen felts: any string that is no number throws.
Converted(event, eventIndex, from, to, low, high, blocks, txs, facAddr) ==
    IF /\ IsFelt(from) /\ IsFelt(to) /\ IsFelt(low) /\ IsFelt(high)
       /\ IsFelt(TransactionFrom(txs, event, facAddr))
    THEN TransferRecord(event, eventIndex, from, to, low, high, blocks, txs, facAddr)
    ELSE Thrown

\* A decoder that takes an event with four data felts for the packed form
\* whatever its keys.
DecodeByFormat_DataFirst(event, eventIndex, blocks, txs, facAddr) ==
    IF HasData(event) /\ Len(event.data) >= 4
    THEN Converted(event, eventIndex, event.data[1], event.data[2],
                   event.data[3], event.data[4], blocks, txs, facAddr)
    ELSE IF Len(event.keys) >= 3 /\ HasData(event)
    THEN Converted(event, eventIndex, event.keys[2], event.keys[3],
                   DataOrZero(event, 0), DataOrZero(event, 1), blocks, txs, facAddr)
    ELSE Null

\* Read the fields by the format the keys length selects.  The indexed form
\* reads data[0] and data[1] unchecked (a missing felt is '0x0', a missing
\* data array throws); the packed form yields Null without four data felts.
DecodeByFormat(event, eventIndex, blocks, txs, facAddr) ==
    IF Len(event.keys) >= 3
    THEN IF ~HasData(event) THEN Thrown
         ELSE Converted(event, eventIndex, event.keys[2], event.keys[3],
                        DataOrZero(event, 0), DataOrZero(event, 1),
                        blocks, txs, facAddr)
    ELSE IF ~HasData(event) \/ Len(event.data) < 4 THEN Null
    ELSE Converted(event, eventIndex, event.data[1], event.data[2],
                   event.data[3], event.data[4], blocks, txs, facAddr)

\* parseStarknetEvents' decoder: an event without keys is skipped.
parseTransferEventWithCache(event, eventIndex, blocks, txs, facAddr) ==
    IF Len(event.keys) < 1 THEN Null
    ELSE DecodeByFormat(event, eventIndex, blocks, txs, facAddr)

\* parseApibaraEvents' decoder: only a missing keys array is skipped.
parseTransferEvent(event, eventIndex, blocks, txs, facAddr) ==
    DecodeByFormat(event, eventIndex, blocks, txs, facAddr)

DecodeOne(p, event, eventIndex, blocks, txs, facAddr) ==
    IF p = "rpc" THEN parseTransferEventWithCache(event, eventIndex, blocks, txs, facAddr)
    ELSE parseTransferEvent(event, eventIndex, blocks, txs, facAddr)

\* A loop body without the try: the exception of a decode leaves the loop.
Caught_Rethrows(parsed) == parsed

\* try { ... } catch (error) { logger.error(...) }: an exception of the decode
\* ends in the catch block and nothing is pushed.
Caught(parsed) == IF parsed = Thrown THEN Null ELSE parsed

RECURSIVE DecodeLoop_StopsAtFailure(_, _, _, _, _, _)
\* A loop that is left at the first event that yields no record.
DecodeLoop_StopsAtFailure(p, events, n, blocks, txs, facAddr) ==
    IF n = 0 THEN <<>>
    ELSE LET before == DecodeLoop_StopsAtFailure(p, events, n - 1, blocks, txs, facAddr)
             parsed == Caught(DecodeOne(p, events[n], n - 1, blocks, txs, facAddr))
         IN  IF parsed \in {Null, Thrown} \/ Len(before) < n - 1 THEN before
             ELSE Append(before, parsed)

RECURSIVE DecodeLoop_NumbersOutput(_, _, _, _, _, _)
\* A loop that numbers each record by its place among the records.
DecodeLoop_NumbersOutput(p, events, n, blocks, txs, facAddr) ==
    IF n = 0 THEN <<>>
    ELSE LET before == DecodeLoop_NumbersOutput(p, events, n - 1, blocks, txs, facAddr)
             parsed == Caught(DecodeOne(p, events[n], Len(before), blocks, txs, facAddr))
         IN  IF parsed \in {Null, Thrown} THEN before ELSE Append(before, parsed)

RECURSIVE DecodeLoop(_, _, _, _, _, _)
\* The for loop over the first n events: the records of those that decode, in order.
DecodeLoop(p, events, n, blocks, txs, facAddr) ==
    IF n = 0 THEN <<>>
    ELSE LET before == DecodeLoop(p, events, n - 1, blocks, txs, facAddr)
             parsed == Caught(DecodeOne(p, events[n], n - 1, blocks, txs, facAddr))
         IN  IF parsed \in {Null, Thrown} THEN before ELSE Append(before, parsed)

\* Whether the event's exclusion is logged: the catch block of either loop
\* logs an exception; only parseTransferEventWithCache warns before it
\* returns null, parseTransferEvent returns null without a word.
LogsFailure(p, parsed) == parsed = Thrown \/ (p = "rpc" /\ parsed = Null)

\* The decode-failure entries one run of the for loop writes.
DecodeFailureLogs(p, events, blocks, txs, facAddr) ==
    Cardinality({n \in 1..Len(events) :
                    LogsFailure(p, DecodeOne(p, events[n], n - 1, blocks, txs, facAddr))})

\* Whether retryWithBackoff warns when it gives a key up ('Failed after ...
\* attempts'): the RPC helper does, the Apibara helper returns null silently.
ExhaustionLogged(p) == p = "rpc"

\* Whether an exception leaves the for loop, and with it the parse function.
DecodeThrows(p, events, blocks, txs, facAddr) ==
    \E n \in 1..Len(events) :
        Caught(DecodeOne(p, events[n], n - 1, blocks, txs, facAddr)) = Thrown

(***************************************************************************)
(* The facilitator filter.                                                 *)
(***************************************************************************)
toLowerCase(s) == [i \in 1..Len(s) |-> HexChars[HexVal(s[i]) + 1]]

\* A replace that strips nothing.
StripLeadingZeros_None(s) == s

RECURSIVE StripLeadingZeros(_)
\* .replace(/^0x0+/, '0x')
StripLeadingZeros(s) ==
    IF s # <<>> /\ s[1] = "0" THEN StripLeadingZeros(Tail(s)) ELSE s

\* A normalization that ignores case only.
NormalizeAddress_CaseOnly(s) == toLowerCase(s)

NormalizeAddress(s) == StripLeadingZeros(toLowerCase(s))

\* facilitatorConfig.address.toLowerCase() of an address that is not set.
FilterThrows(facAddr) == facAddr = NoField

ConfigError == [call |-> "filter", rateLimit |-> FALSE]

RECURSIVE FilterByFacilitator(_, _)
FilterByFacilitator(records, facAddr) ==
    IF records = <<>> THEN <<>>
    ELSE LET rest == FilterByFacilitator(Tail(records), facAddr)
         IN  IF NormalizeAddress(Head(records).sender) = NormalizeAddress(facAddr)
             THEN <<Head(records)>> \o rest
             ELSE rest

(***************************************************************************)
(* The window run: fetchStarknetRpc ("rpc") and fetchViaRpc ("apibara").   *)
(***************************************************************************)
NoResult == [returned |-> FALSE, records |-> <<>>]
Returned(records) == [returned |-> TRUE, records |-> records]

NoError == [call |-> "none", rateLimit |-> FALSE]
ErrorOf(call, msg) == [call |-> call, rateLimit |-> IsRateLimit(msg)]

cfgVars == <<profile, limit, facilitatorAddress, window, previous>>
pageVars == <<range, allEvents, continuationToken, pageCount, getEventsCalls,
              moreDataWarned, remote>>
passVars == <<passKind, passKeys, units, queue>>
cacheVars == <<blockCache, txCache>>
outVars == <<transferEvents, result>>

\* What the remote has seen of the pagination: the events it has returned, in
\* the order it returned them, how many responses it has given and how many of
\* them carried a continuation token, the chunk_size of the latest query, and
\* how many queries it has answered with an error.
\* It also keeps the token of its latest response, whether every query so far
\* carried the token of the response before it (none before the first
\* response), and the other parameters of every query so far.
NoTraffic ==
    [sent |-> <<>>, responses |-> 0, tokens |-> 0, chunk |-> 0, failed |-> 0,
     gave |-> NoToken, chained |-> TRUE, filters |-> {}]

\* Before getBlockLatestAccepted has answered there is no block range.
NoRange == [fromBlock |-> -1, toBlock |-> -1, latest |-> -1, readNow |-> -1,
            readSince |-> -1]

NoOrphans == [calling |-> 0, sleeping |-> 0, queued |-> 0]

\* The limiter of a pipeline that threw keeps its units: those awaiting a
\* remote call, those sleeping between attempts and those still queued.
Orphaned(us, q) ==
    [calling |-> Cardinality({i \in DOMAIN us : us[i].st = "calling"}),
     sleeping |-> Cardinality({i \in DOMAIN us : us[i].st = "sleeping"}),
     queued |-> Len(q)]

\* fetchStarknetRpc, and fetchApibara without APIBARA_ACCESS_TOKEN: the one
\* pipeline's outcome is the outcome of the call.
Direct == [token |-> FALSE, runs |-> 1, caught |-> NoError]

\* fetchApibara with a token, its primary pipeline under way.
Guarded == [token |-> TRUE, runs |-> 1, caught |-> NoError]

NoLog == [retryExhausted |-> 0, decodeFailure |-> 0, fallbackUsed |-> 0]

\* A fetchApibara whose fallback pipeline runs under the try as well.
FallbackCatches_Always(p, w) == p = "apibara" /\ w.token /\ w.runs <= 2

\* Whether a throw of the running pipeline lands in fetchApibara's catch block.
FallbackCatches(p, w) == p = "apibara" /\ w.token /\ w.runs = 1

\* The pipeline throws err; us and q are the units and the queue the step
\* leaves behind.  The catch block of the fetch function logs and rethrows.
\* Under fetchApibara's try the catch block calls fetchViaRpc, which starts a
\* pipeline of its own (new provider, new locals) and runs up to its
\* getBlockLatestAccepted; otherwise the window run has thrown.
PipelineThrows(err, us, q) ==
    IF FallbackCatches(profile, wrapper)
    THEN /\ wrapper' = [wrapper EXCEPT !.runs = @ + 1, !.caught = err]
         /\ pc' = "estimate"
         /\ allEvents' = <<>>
         /\ continuationToken' = NoToken
         /\ pageCount' = 0
         /\ getEventsCalls' = 0
         /\ moreDataWarned' = FALSE
         /\ remote' = NoTraffic
         /\ range' = NoRange
         /\ orphans' = Orphaned(us, q)
         /\ passKind' = "none"
         /\ passKeys' = <<>>
         /\ units' = <<>>
         /\ queue' = <<>>
         /\ blockCache' = EmptyMap
         /\ txCache' = EmptyMap
         /\ transferEvents' = <<>>
         /\ result' = NoResult
         /\ runError' = NoError
    ELSE /\ pc' = "aborted"
         /\ runError' = err
         /\ units' = us
         /\ queue' = q
         /\ remote' = IF err.call = "getEvents"
                      THEN [remote EXCEPT !.failed = @ + 1]
                      ELSE remote
         /\ UNCHANGED <<wrapper, orphans, range, allEvents, continuationToken,
                        pageCount, getEventsCalls, moreDataWarned, passKind, passKeys,
                        cacheVars, outVars>>

Max(a, b) == IF a >= b THEN a ELSE b

\* Math.floor((new Date().getTime() - t.getTime()) / 1000 / 6)
BlockOffset(clock, t) == (clock - t) \div (MsPerSecond * STARKNET_BLOCK_TIME_SECONDS)

\* A block estimate without the clamp at zero.
EstimateBlock_Unclamped(latest, offset) == latest - offset

\* Math.max(0, latestBlock.block_number - offset)
EstimateBlock(latest, offset) == Max(0, latest - offset)

\* The block range of the window w, from getBlockLatestAccepted's block
\* number and the two readings of the wall clock: t1 for nowBlockOffset, then
\* t2 for sinceBlockOffset.
EstimateRange(w, latest, t1, t2) ==
    [fromBlock |-> EstimateBlock(latest, BlockOffset(t2, w.since)),
     toBlock |-> EstimateBlock(latest, BlockOffset(t1, w.now)),
     latest |-> latest, readNow |-> t1, readSince |-> t2]

\* An event filter that never carries a continuation token.
EventFilter_NoToken(rg, lim, tok) ==
    [from_block |-> rg.fromBlock, to_block |-> rg.toBlock, address |-> TokenAddress,
     keys |-> <<<<Selector>>>>, chunk_size |-> ChunkSize(lim),
     continuation_token |-> NoToken]

\* The eventFilter the loop builds for one query; continuation_token is set
\* only when the loop holds a token.
EventFilter(rg, lim, tok) ==
    [from_block |-> rg.fromBlock, to_block |-> rg.toBlock, address |-> TokenAddress,
     keys |-> <<<<Selector>>>>, chunk_size |-> ChunkSize(lim),
     continuation_token |-> tok]

\* The parameters of a query other than its continuation token.
WindowOf(f) ==
    [from_block |-> f.from_block, to_block |-> f.to_block, address |-> f.address,
     keys |-> f.keys, chunk_size |-> f.chunk_size]

\* The remote receives a getEvents query.
Queried(r, f) ==
    [r EXCEPT !.chunk = f.chunk_size,
              !.chained = @ /\ f.continuation_token = r.gave,
              !.filters = @ \cup {WindowOf(f)}]

\* The remote answers a query with a page and a token.
Answered(r, page, tok) ==
    [r EXCEPT !.sent = @ \o page,
              !.responses = @ + 1,
              !.tokens = IF tok # NoToken THEN @ + 1 ELSE @,
              !.gave = tok]

\* The remote's record once it has served page as the only page of the range.
OnePage(rg, lim, page) ==
    Answered(Queried(NoTraffic, EventFilter(rg, lim, NoToken)), page, NoToken)

\* The accumulation keeping the latest page only.
Accumulate_LatestPageOnly(all, page) == page

\* allEvents.push(...events)
Accumulate(all, page) == all \o page

\* The stop test without the page cap.
StopByCap_ResultsOnly(n, pages, lim) == n >= lim

\* allEvents.length >= config.limit || pageCount >= MAX_PAGES
StopByCap(n, pages, lim) == n >= lim \/ pages >= MAX_PAGES

\* The warning without the test of the token.
MoreDataWarning_IgnoresToken(capped, tok) == capped

\* The logger.warn inside the cap branch.
MoreDataWarning(capped, tok) == capped /\ tok # NoToken

\* Whether the do-while goes round again.
LoopContinues(capped, tok) == ~capped /\ tok # NoToken

\* getBlockLatestAccepted answers; the loop issues its first getEvents query.
GetLatestBlockOk(latest, t1, t2) ==
    /\ pc = "estimate"
    /\ pc' = "paginate"
    /\ range' = EstimateRange(window, latest, t1, t2)
    /\ getEventsCalls' = 1
    /\ remote' = Queried(remote, EventFilter(range', limit, continuationToken))
    /\ UNCHANGED <<cfgVars, allEvents, continuationToken, pageCount, moreDataWarned,
                   passVars, cacheVars, outVars, runError, wrapper, orphans, log>>

\* getBlockLatestAccepted fails: the catch block logs and rethrows.
GetLatestBlockFails(msg) ==
    /\ pc = "estimate"
    /\ PipelineThrows(ErrorOf("getBlockLatestAccepted", msg), units, queue)
    /\ UNCHANGED <<cfgVars, log>>

\* A getEvents response: accumulate, then stop or issue the next query.
GetEventsOk(page, tok) ==
    /\ pc = "paginate"
    /\ LET all == Accumulate(allEvents, page)
           pages == pageCount + 1
           capped == StopByCap(Len(all), pages, limit)
           again == LoopContinues(capped, tok)
       IN  /\ allEvents' = all
           /\ continuationToken' = tok
           /\ pageCount' = pages
           /\ moreDataWarned' = (moreDataWarned \/ MoreDataWarning(capped, tok))
           /\ getEventsCalls' = IF again THEN getEventsCalls + 1 ELSE getEventsCalls
           /\ pc' = IF again THEN "paginate" ELSE "parse"
           /\ remote' = IF again
                        THEN Queried(Answered(remote, page, tok),
                                     EventFilter(range, limit, tok))
                        ELSE Answered(remote, page, tok)
    /\ UNCHANGED <<cfgVars, range, passVars, cacheVars, outVars, runError, wrapper, orphans, log>>

\* A catch block that returns what it has instead of rethrowing.
GetEventsFails_ReturnsEmpty(msg) ==
    /\ pc = "paginate"
    /\ pc' = "aborted"
    /\ runError' = ErrorOf("getEvents", msg)
    /\ result' = Returned(<<>>)
    /\ UNCHANGED <<cfgVars, pageVars, passVars, cacheVars, transferEvents, wrapper, orphans, log>>

\* A pagination loop that queries again after a failure.
GetEventsFails_Retries(msg) ==
    /\ pc = "paginate"
    /\ remote.failed < 2
    /\ remote' = [remote EXCEPT !.failed = @ + 1]
    /\ getEventsCalls' = getEventsCalls + 1
    /\ UNCHANGED <<cfgVars, pc, range, allEvents, continuationToken, pageCount,
                   moreDataWarned, passVars, cacheVars, outVars, runError, wrapper, orphans, log>>

\* getEvents fails: the catch block logs and rethrows.
GetEventsFails(msg) ==
    /\ pc = "paginate"
    /\ PipelineThrows(ErrorOf("getEvents", msg), units, queue)
    /\ UNCHANGED <<cfgVars, log>>

\* Entry of parseStarknetEvents / parseApibaraEvents: nothing to do for an
\* empty batch, else the block pass is handed to the limiter.
ParseBegin ==
    /\ pc = "parse"
    /\ IF allEvents = <<>>
       THEN IF FilterThrows(facilitatorAddress)
            THEN PipelineThrows(ConfigError, units, queue)
            ELSE /\ pc' = "done"
                 /\ transferEvents' = <<>>
                 /\ result' = Returned(FilterByFacilitator(<<>>, facilitatorAddress))
                 /\ UNCHANGED <<pageVars, passVars, cacheVars, runError, wrapper, orphans>>
       ELSE LET keys == uniqueBlockNumbers(allEvents)
                d == BeginPass(profile, keys)
            IN  /\ pc' = "resolveBlocks"
                /\ passKind' = "blocks"
                /\ passKeys' = keys
                /\ units' = d.units
                /\ queue' = d.queue
                /\ blockCache' = EmptyMap
                /\ UNCHANGED <<pageVars, txCache, outVars, runError, wrapper, orphans>>
    /\ UNCHANGED <<cfgVars, log>>

\* The store with the two caches taken for each other.
CacheStore_Swapped(kind, blocks, txs, k) ==
    IF kind = "txs"
    THEN [blocks |-> MapSet(blocks, k, BlockOf(k)), txs |-> txs]
    ELSE [blocks |-> blocks, txs |-> MapSet(txs, k, TxOf(k))]

\* A store that files each value under its rank in the order of completion.
CacheStore_CompletionOrder(kind, blocks, txs, k) ==
    IF kind = "blocks"
    THEN [blocks |-> MapSet(blocks, Cardinality(DOMAIN blocks) + 1, BlockOf(k)),
          txs |-> txs]
    ELSE [blocks |-> blocks,
          txs |-> MapSet(txs, Cardinality(DOMAIN txs) + 1, TxOf(k))]

\* if (block) blockCache.set(blockNum, block) / if (tx) txCache.set(txHash, tx)
CacheStore(kind, blocks, txs, k) ==
    IF kind = "blocks"
    THEN [blocks |-> MapSet(blocks, k, BlockOf(k)), txs |-> txs]
    ELSE [blocks |-> blocks, txs |-> MapSet(txs, k, TxOf(k))]

\* A unit that keeps the value of a first attempt only: the value a retry
\* obtained is dropped.
LookupOk_DropsRetriedValue(i) ==
    /\ i \in DOMAIN units
    /\ units[i].st = "calling"
    /\ LET d == Dispatch(profile, [units EXCEPT ![i].st = "ok"], queue)
           c == IF units[i].attempt = 0
                THEN CacheStore(passKind, blockCache, txCache, units[i].key)
                ELSE [blocks |-> blockCache, txs |-> txCache]
       IN  /\ units' = d.units
           /\ queue' = d.queue
           /\ blockCache' = c.blocks
           /\ txCache' = c.txs
    /\ UNCHANGED <<cfgVars, pageVars, passKind, passKeys, outVars, pc, runError,
                   wrapper, orphans, log>>

\* The lookup of unit i answers: the unit stores the value and ends, and the
\* limiter starts the next queued unit.
LookupOk(i) ==
    /\ i \in DOMAIN units
    /\ units[i].st = "calling"
    /\ LET d == Dispatch(profile, [units EXCEPT ![i].st = "ok"], queue)
           c == CacheStore(passKind, blockCache, txCache, units[i].key)
       IN  /\ units' = d.units
           /\ queue' = d.queue
           /\ blockCache' = c.blocks
           /\ txCache' = c.txs
    /\ UNCHANGED <<cfgVars, pageVars, passKind, passKeys, outVars, pc, runError,
                   wrapper, orphans, log>>

\* The remote call a unit of the pass makes.
LookupCall(kind) ==
    IF kind = "blocks" THEN "getBlockWithTxHashes" ELSE "getTransactionByHash"

ErrorClass(msg) == IF IsRateLimit(msg) THEN "rateLimit" ELSE "other"

\* The lookup of unit i fails with msg: retryWithBackoff's catch block.  A
\* throw rejects the unit, Promise.all and with it the window run; the
\* limiter goes on with its queue all the same.
LookupFails(i, msg) ==
    /\ i \in DOMAIN units
    /\ units[i].st = "calling"
    /\ CanFail(units[i].key)
    /\ LET decision == RetryDecision(profile, units[i].attempt, IsRateLimit(msg))
           failed == [units EXCEPT ![i].errors = Append(@, ErrorClass(msg))]
       IN  CASE decision = "sleep" ->
                  /\ units' = [failed EXCEPT ![i].st = "sleeping", ![i].sleeps = @ + 1,
                                             ![i].delays =
                                                 Append(@, Delay(profile, units[i].attempt))]
                  /\ UNCHANGED <<queue, pc, runError, pageVars, passKind, passKeys,
                                 cacheVars, outVars, wrapper, orphans, log>>
             [] decision = "null" ->
                  LET d == Dispatch(profile, [failed EXCEPT ![i].st = "null"], queue)
                  IN  /\ units' = d.units
                      /\ queue' = d.queue
                      /\ log' = IF ExhaustionLogged(profile)
                                THEN [log EXCEPT !.retryExhausted = @ + 1]
                                ELSE log
                      /\ UNCHANGED <<pc, runError, pageVars, passKind, passKeys,
                                     cacheVars, outVars, wrapper, orphans>>
             [] decision = "throw" ->
                  LET d == Dispatch(profile, [failed EXCEPT ![i].st = "thrown"], queue)
                  IN  /\ IF pc \in {"resolveBlocks", "resolveTxs"}
                         THEN PipelineThrows(ErrorOf(LookupCall(passKind), msg),
                                             d.units, d.queue)
                         ELSE /\ units' = d.units
                              /\ queue' = d.queue
                              /\ UNCHANGED <<pc, runError, pageVars, passKind, passKeys,
                                             cacheVars, outVars, wrapper, orphans>>
                      /\ UNCHANGED log
    /\ UNCHANGED cfgVars

\* A timer that starts the attempts over when it fires.
BackoffElapsed_StartsOver(i) ==
    /\ i \in DOMAIN units
    /\ units[i].st = "sleeping"
    /\ units' = [units EXCEPT ![i].st = "calling", ![i].attempt = 0, ![i].calls = @ + 1]
    /\ UNCHANGED <<cfgVars, pageVars, passKind, passKeys, cacheVars, outVars,
                   pc, runError, wrapper, orphans, log, queue>>

\* The backoff timer of unit i fires: attempt++ and, while attempt < maxRetries,
\* fn is invoked again; past the loop retryWithBackoff returns null.
BackoffElapsed(i) ==
    /\ i \in DOMAIN units
    /\ units[i].st = "sleeping"
    /\ IF units[i].attempt + 1 < MaxRetries(profile)
       THEN /\ units' = [units EXCEPT ![i].st = "calling", ![i].attempt = @ + 1,
                                      ![i].calls = @ + 1]
            /\ UNCHANGED queue
       ELSE LET d == Dispatch(profile,
                              [units EXCEPT ![i].st = "null", ![i].attempt = @ + 1],
                              queue)
            IN  /\ units' = d.units
                /\ queue' = d.queue
    /\ UNCHANGED <<cfgVars, pageVars, passKind, passKeys, cacheVars, outVars,
                   pc, runError, wrapper, orphans, log>>

\* An await that resumes as soon as one unit has fulfilled.
AllFulfilled_FirstFulfilled(us) == \E i \in DOMAIN us : us[i].st \in {"ok", "null"}

\* Promise.all resolves: every unit has fulfilled, with a value or with null.
AllFulfilled(us) == \A i \in DOMAIN us : us[i].st \in {"ok", "null"}

\* await Promise.all over the block units resolves: the transaction pass is
\* handed to the limiter.
BlocksResolved ==
    /\ pc = "resolveBlocks"
    /\ AllFulfilled(units)
    /\ LET keys == uniqueTxHashes(allEvents)
           d == BeginPass(profile, keys)
       IN  /\ passKind' = "txs"
           /\ passKeys' = keys
           /\ units' = d.units
           /\ queue' = d.queue
    /\ txCache' = EmptyMap
    /\ pc' = "resolveTxs"
    /\ UNCHANGED <<cfgVars, pageVars, blockCache, outVars, runError, wrapper, orphans, log>>

\* await Promise.all over the transaction units resolves: decode every event,
\* return to the fetch function, filter, return.  An exception that left the
\* parse function would reach the catch block of the fetch function.
TxsResolved ==
    /\ pc = "resolveTxs"
    /\ AllFulfilled(units)
    /\ IF DecodeThrows(profile, allEvents, blockCache, txCache, facilitatorAddress)
       THEN /\ PipelineThrows([call |-> "decode", rateLimit |-> FALSE], units, queue)
            /\ UNCHANGED log
       ELSE /\ log' = [log EXCEPT !.decodeFailure =
                            @ + DecodeFailureLogs(profile, allEvents, blockCache, txCache,
                                                  facilitatorAddress)]
            /\ IF FilterThrows(facilitatorAddress)
               THEN PipelineThrows(ConfigError, units, queue)
               ELSE LET decoded == DecodeLoop(profile, allEvents, Len(allEvents),
                                              blockCache, txCache, facilitatorAddress)
                    IN  /\ transferEvents' = decoded
                        /\ result' = Returned(FilterByFacilitator(decoded,
                                                                  facilitatorAddress))
                        /\ pc' = "done"
                        /\ UNCHANGED <<pageVars, passVars, cacheVars, runError, wrapper, orphans>>
    /\ UNCHANGED cfgVars

(***************************************************************************)
(* Initial states and specifications.                                      *)
(***************************************************************************)
\* facilitatorConfig.address as configured: upper case, zero padded.
ConfiguredFacilitator == <<"0", "A", "A", "A">>

ConfigLimit(p) == IF p = "rpc" THEN RpcLimit ELSE ApibaraLimit

\* A window of two minutes that ends when the run starts, on a chain whose
\* latest accepted block is block 20: the range is blocks 0 to 20.
DefaultWindow == [since |-> 0, now |-> 120000]

DefaultReading == [latest |-> 20, clock |-> 120000]

DefaultRange ==
    EstimateRange(DefaultWindow, DefaultReading.latest, DefaultReading.clock,
                  DefaultReading.clock)

NoPrevious == [ran |-> FALSE, events |-> <<>>, records |-> <<>>]

InitLocals ==
    /\ profile \in Profiles
    /\ previous = NoPrevious
    /\ orphans = NoOrphans
    /\ continuationToken = NoToken
    /\ moreDataWarned = FALSE
    /\ passKind = "none"
    /\ passKeys = <<>>
    /\ units = <<>>
    /\ queue = <<>>
    /\ blockCache = EmptyMap
    /\ txCache = EmptyMap
    /\ transferEvents = <<>>
    /\ result = NoResult
    /\ runError = NoError
    /\ log = NoLog

InitCommon ==
    /\ InitLocals
    /\ window = DefaultWindow
    /\ facilitatorAddress = ConfiguredFacilitator
    /\ wrapper = Direct

\* A window run about to start, for a small results cap.
Init ==
    /\ InitCommon
    /\ limit \in 1..MaxLimit
    /\ pc = "estimate"
    /\ allEvents = <<>>
    /\ pageCount = 0
    /\ getEventsCalls = 0
    /\ remote = NoTraffic
    /\ range = NoRange

\* Pages a remote may answer with when it is free to return any events.
AnyPages == Pages(Min(ChunkSize(limit), MaxPageLen))

\* The log of the remote of the full-run model, which serves it in order.
RemoteLog == <<EvIndexed, EvPacked, EvShort>>

\* Pages of a remote that serves RemoteLog from where the last page ended.
LogPages ==
    LET from == Len(allEvents)
        most == Min(Min(ChunkSize(limit), MaxPageLen), Len(RemoteLog) - from)
    IN  {SubSeq(RemoteLog, from + 1, from + n) : n \in 0..most}

\* The estimation step for given answers of the remote and given readings of
\* the wall clock, which does not run backwards between the two readings.
EstimateFrom(latests, clocks) ==
    \/ \E latest \in latests, t1 \in clocks, t2 \in clocks :
          t1 <= t2 /\ GetLatestBlockOk(latest, t1, t2)
    \/ \E msg \in ErrorMessages : GetLatestBlockFails(msg)

Estimate == EstimateFrom({DefaultReading.latest}, {DefaultReading.clock})

Paginate(pages) ==
    \/ \E page \in pages, tok \in Tokens \cup {NoToken} : GetEventsOk(page, tok)
    \/ \E msg \in ErrorMessages : GetEventsFails(msg)

Resolve ==
    \/ ParseBegin
    \/ \E i \in DOMAIN units : LookupOk(i)
    \/ \E i \in DOMAIN units, msg \in ErrorMessages : LookupFails(i, msg)
    \/ \E i \in DOMAIN units : BackoffElapsed(i)
    \/ BlocksResolved
    \/ TxsResolved

Next == Estimate \/ Paginate(LogPages) \/ Resolve

Spec == Init /\ [][Next]_vars

\* The three entry points: fetchStarknetRpc, fetchApibara without
\* APIBARA_ACCESS_TOKEN and fetchApibara with it.
Wrappers(p) == IF p = "apibara" THEN {Direct, Guarded} ELSE {Direct}

InitFetch ==
    /\ InitLocals
    /\ window = DefaultWindow
    /\ facilitatorAddress = ConfiguredFacilitator
    /\ wrapper \in Wrappers(profile)
    /\ limit \in 1..FetchLimit
    /\ pc = "estimate"
    /\ allEvents = <<>>
    /\ pageCount = 0
    /\ getEventsCalls = 0
    /\ remote = NoTraffic
    /\ range = NoRange

SpecFetch == InitFetch /\ [][Next]_vars

\* A window run for a facilitator whose configuration carries no address.
InitConfig ==
    /\ InitLocals
    /\ window = DefaultWindow
    /\ facilitatorAddress = NoField
    /\ wrapper = Direct
    /\ limit \in 1..FetchLimit
    /\ pc = "estimate"
    /\ allEvents = <<>>
    /\ pageCount = 0
    /\ getEventsCalls = 0
    /\ remote = NoTraffic
    /\ range = NoRange

SpecConfig == InitConfig /\ [][Next]_vars

\* The estimation of the block range alone: windows with since <= now that end
\* before, at and after the readings of the wall clock, on chains shorter and
\* longer than the window.
RangeTimes == {0, 5999, 6000, 12000, 18001}

RangeWindows ==
    {w \in [since : RangeTimes, now : RangeTimes] : w.since <= w.now}

RangeClocks == {6000, 11999, 12000, 18000}

InitRange ==
    /\ InitLocals
    /\ window \in RangeWindows
    /\ facilitatorAddress = ConfiguredFacilitator
    /\ wrapper = Direct
    /\ limit = ConfigLimit(profile)
    /\ pc = "estimate"
    /\ allEvents = <<>>
    /\ pageCount = 0
    /\ getEventsCalls = 0
    /\ remote = NoTraffic
    /\ range = NoRange

NextRange == EstimateFrom(0..MaxLatest, RangeClocks)

SpecRange == InitRange /\ [][NextRange]_vars

\* Pagination alone.
NextPage == Estimate \/ Paginate(AnyPages)

SpecPage == Init /\ [][NextPage]_vars

\* Pagination under the configured limits and limits around the chunk ceiling,
\* against a remote whose pages hold at most one event.
ChunkLimits == {MaxChunkSize - 1, MaxChunkSize, MaxChunkSize + 1, RpcLimit, ApibaraLimit}

SparsePages == {<<>>, <<EvShort>>}

InitChunk ==
    /\ InitCommon
    /\ limit \in ChunkLimits
    /\ pc = "estimate"
    /\ allEvents = <<>>
    /\ pageCount = 0
    /\ getEventsCalls = 0
    /\ remote = NoTraffic
    /\ range = NoRange

NextChunk == Estimate \/ Paginate(SparsePages)

SpecChunk == InitChunk /\ [][NextChunk]_vars

\* Batches for the resolution passes: event i of Batch(nb, nt) references
\* block KeyAt(i, nb) and transaction KeyAt(i, nt), so the batch holds nb
\* distinct blocks and nt distinct transactions and repeats its first keys.
KeyAt(i, n) == ((i - 1) % n) + 1

BatchEvent(i, nb, nt) ==
    LET shape == CASE i % 3 = 1 -> EvIndexed [] i % 3 = 2 -> EvPacked [] OTHER -> EvShort
    IN  [block_number |-> KeyAt(i, nb), transaction_hash |-> KeyAt(i, nt),
         keys |-> shape.keys, data |-> shape.data]

Batch(nb, nt) == [i \in 1..(Max(nb, nt) + 1) |-> BatchEvent(i, nb, nt)]

PassBatches(p) ==
    {Batch(Concurrency(p) + 2, 1), Batch(1, Concurrency(p) + 1), Batch(2, 2)}

\* parseStarknetEvents / parseApibaraEvents entered with a batch that one
\* page of the window delivered.
InitPass ==
    /\ InitCommon
    /\ limit = ConfigLimit(profile)
    /\ pc = "parse"
    /\ allEvents \in PassBatches(profile)
    /\ pageCount = 1
    /\ getEventsCalls = 1
    /\ range = DefaultRange
    /\ remote = OnePage(range, limit, allEvents)

SpecPass == InitPass /\ [][Resolve]_vars

\* A batch that leaves one unit of the block pass queued behind a full limiter.
FairBatches(p) == {Batch(Concurrency(p) + 1, 1)}

\* The block pass of parseStarknetEvents / parseApibaraEvents just handed to
\* the limiter: the state ParseBegin leaves.
InitPassFair ==
    /\ profile \in Profiles
    /\ facilitatorAddress = ConfiguredFacilitator
    /\ limit = ConfigLimit(profile)
    /\ wrapper = Direct
    /\ log = NoLog
    /\ allEvents \in FairBatches(profile)
    /\ continuationToken = NoToken
    /\ pageCount = 1
    /\ getEventsCalls = 1
    /\ moreDataWarned = FALSE
    /\ window = DefaultWindow
    /\ previous = NoPrevious
    /\ orphans = NoOrphans
    /\ range = DefaultRange
    /\ remote = OnePage(range, limit, allEvents)
    /\ pc = "resolveBlocks"
    /\ passKind = "blocks"
    /\ passKeys = uniqueBlockNumbers(allEvents)
    /\ units = BeginPass(profile, passKeys).units
    /\ queue = BeginPass(profile, passKeys).queue
    /\ blockCache = EmptyMap
    /\ txCache = EmptyMap
    /\ transferEvents = <<>>
    /\ result = NoResult
    /\ runError = NoError

\* The steps of the units of a pass.
Lookups ==
    \/ \E i \in DOMAIN units : LookupOk(i)
    \/ \E i \in DOMAIN units, msg \in ErrorMessages : LookupFails(i, msg)
    \/ \E i \in DOMAIN units : BackoffElapsed(i)

\* The pass under the scheduling the event loop gives it: a remote call
\* returns or fails, and a timer fires.
SpecPassFair == InitPassFair /\ [][Lookups]_vars /\ WF_vars(Lookups)

\* Raw events for the decoder, all of block 1 and transaction 1.  Limbs:
\* 2^53, 2^53 + 1 and the largest 128-bit value.
Limb2p53 == <<"2", "0", "0", "0", "0", "0", "0", "0", "0", "0", "0", "0", "0", "0">>
Limb2p53plus1 == <<"2", "0", "0", "0", "0", "0", "0", "0", "0", "0", "0", "0", "0", "1">>
LimbMax == [i \in 1..32 |-> "f"]
NotANumber == <<"z">>

Raw(keys, data) == [block_number |-> 1, transaction_hash |-> 1, keys |-> keys, data |-> data]

RawNoData(keys) == [block_number |-> 1, transaction_hash |-> 1, keys |-> keys]

IndexedKeys == <<Selector, hAAA, hBBB>>

DecodePool ==
    {Raw(IndexedKeys, <<<<"6", "4">>, <<"0">>>>),
     Raw(IndexedKeys, <<hCCC, hDDD, <<"c", "8">>, <<"0">>>>),
     Raw(IndexedKeys, <<>>),
     Raw(IndexedKeys, <<<<"6", "4">>>>),
     Raw(IndexedKeys, <<Limb2p53plus1, <<"0">>>>),
     Raw(IndexedKeys, <<LimbMax, LimbMax>>),
     Raw(<<Selector, NotANumber, hBBB>>, <<<<"6", "4">>, <<"0">>>>),
     RawNoData(IndexedKeys),
     Raw(<<Selector>>, <<hCCC, hDDD, <<"c", "8">>, <<"0">>>>),
     Raw(<<Selector>>, <<hCCC, hDDD, Limb2p53, <<"0">>>>),
     Raw(<<Selector>>, <<hCCC, hDDD, <<"0">>, <<"1">>>>),
     Raw(<<Selector>>, <<hAAA, NotANumber, <<"c", "8">>, <<"0">>>>),
     Raw(<<Selector>>, <<hAAA>>),
     Raw(<<Selector, hAAA>>, <<hCCC, hDDD, <<"c", "8">>>>),
     RawNoData(<<Selector>>),
     Raw(<<>>, <<hAAA, hBBB, <<"c", "8">>, <<"0">>>>)}

\* Longest batch handed to the decoder.
MaxBatchLen == 2

DecodeBatches == UNION {[1..k -> DecodePool] : k \in 1..MaxBatchLen}

\* parseStarknetEvents / parseApibaraEvents entered with a batch of raw events
\* of any shape.
InitDecode ==
    /\ InitCommon
    /\ limit = ConfigLimit(profile)
    /\ pc = "parse"
    /\ allEvents \in DecodeBatches
    /\ pageCount = 1
    /\ getEventsCalls = 1
    /\ range = DefaultRange
    /\ remote = OnePage(range, limit, allEvents)

SpecDecode == InitDecode /\ [][Resolve]_vars

\* The units of the primary pipeline that fetchApibara's catch block left
\* behind.  Nothing cancels them: the primary's limiter keeps running them while
\* the fallback pipeline runs with a limiter of its own.  A unit is followed to
\* the end of the remote call it awaits; what it stores goes to the primary's
\* caches, which nobody reads.
OrphanSettles ==
    /\ orphans.calling > 0
    /\ orphans' = IF orphans.queued > 0
                  THEN [orphans EXCEPT !.queued = @ - 1]
                  ELSE [orphans EXCEPT !.calling = @ - 1]
    /\ UNCHANGED <<cfgVars, pageVars, passVars, cacheVars, outVars, pc, runError,
                   wrapper, log>>

\* The timer of a sleeping unit of the primary fires: its next attempt starts.
OrphanWakes ==
    /\ orphans.sleeping > 0
    /\ orphans' = [orphans EXCEPT !.sleeping = @ - 1, !.calling = @ + 1]
    /\ UNCHANGED <<cfgVars, pageVars, passVars, cacheVars, outVars, pc, runError,
                   wrapper, log>>

\* fetchApibara with a token: the primary pipeline has fetched one page with
\* one block more than the limiter is wide and enters parseApibaraEvents.
InitOrphan ==
    /\ InitLocals
    /\ profile = "apibara"
    /\ window = DefaultWindow
    /\ facilitatorAddress = ConfiguredFacilitator
    /\ wrapper = Guarded
    /\ limit = ConfigLimit(profile)
    /\ pc = "parse"
    /\ allEvents \in FairBatches(profile)
    /\ pageCount = 1
    /\ getEventsCalls = 1
    /\ range = DefaultRange
    /\ remote = OnePage(range, limit, allEvents)

NextOrphan == Estimate \/ Paginate(SparsePages) \/ Resolve \/ OrphanSettles \/ OrphanWakes

SpecOrphan == InitOrphan /\ [][NextOrphan]_vars

\* Two runs of the fetch function over windows onto the same chain.  The
\* chain accepts a block every six seconds, block n at 6000 * n ms; its log of
\* Transfer events is ChainLog, and getEvents serves the events of the block
\* range in one page.
ChainLog ==
    <<[EvPacked EXCEPT !.block_number = 1], [EvIndexed EXCEPT !.block_number = 2]>>

LatestAt(clock) == clock \div (MsPerSecond * STARKNET_BLOCK_TIME_SECONDS)

InRange(rg, e) == rg.fromBlock <= e.block_number /\ e.block_number <= rg.toBlock

EventsIn(rg) == SelectSeq(ChainLog, LAMBDA e : InRange(rg, e))

\* Windows the scheduler asks for: the last twelve seconds, and the time since
\* just after block 1.
RerunWindows == {[since |-> 0, now |-> 12000], [since |-> 6001, now |-> 12000]}

\* The caller has taken the records of the finished run; the scheduler calls
\* the fetch function again, one block later, for the window w, and the run
\* reaches the entry of its parse function.
Rerun(w) ==
    /\ pc = "done"
    /\ ~previous.ran
    /\ previous' = [ran |-> TRUE, events |-> allEvents, records |-> result.records]
    /\ window' = w
    /\ LET clock == range.readSince + MsPerSecond * STARKNET_BLOCK_TIME_SECONDS
       IN  range' = EstimateRange(w, LatestAt(clock), clock, clock)
    /\ pc' = "parse"
    /\ allEvents' = EventsIn(range')
    /\ continuationToken' = NoToken
    /\ pageCount' = 1
    /\ getEventsCalls' = 1
    /\ moreDataWarned' = FALSE
    /\ remote' = OnePage(range', limit, allEvents')
    /\ passKind' = "none"
    /\ passKeys' = <<>>
    /\ units' = <<>>
    /\ queue' = <<>>
    /\ blockCache' = EmptyMap
    /\ txCache' = EmptyMap
    /\ transferEvents' = <<>>
    /\ result' = NoResult
    /\ runError' = NoError
    /\ UNCHANGED <<profile, limit, facilitatorAddress, wrapper, orphans, log>>

InitRerun ==
    /\ InitLocals
    /\ window \in RerunWindows
    /\ facilitatorAddress = ConfiguredFacilitator
    /\ wrapper = Direct
    /\ limit = ConfigLimit(profile)
    /\ pc = "parse"
    /\ range = EstimateRange(window, LatestAt(window.now), window.now, window.now)
    /\ allEvents = EventsIn(range)
    /\ pageCount = 1
    /\ getEventsCalls = 1
    /\ remote = OnePage(range, limit, allEvents)

NextRerun == Resolve \/ \E w \in RerunWindows : Rerun(w)

SpecRerun == InitRerun /\ [][NextRerun]_vars

\* The tail of the fetch function, from the records the parse function
\* returned: normalize, filter by sender, return.
FilterReturn ==
    /\ pc = "filter"
    /\ result' = Returned(FilterByFacilitator(transferEvents, facilitatorAddress))
    /\ pc' = "done"
    /\ UNCHANGED <<cfgVars, pageVars, passVars, cacheVars, transferEvents, runError,
                   wrapper, orphans, log>>

\* Records handed to the filter: senders in several spellings of 0xabc and
\* other addresses, with every combination of recipient and transaction_from.
FilterSenders ==
    {<<"0", "0", "a", "b", "c">>, <<"a", "b", "c">>, <<"A", "B", "C">>,
     <<"d", "e", "f">>, <<"a", "b", "c", "0">>}

FilterOthers == {<<"a", "b", "c">>, <<"d", "e", "f">>}

FilterRecords ==
    {[transaction_from |-> f, sender |-> s, recipient |-> t, amount |-> Bits(100),
      block_timestamp |-> CurrentTime, tx_hash |-> 1, log_index |-> 0] :
        s \in FilterSenders, t \in FilterOthers, f \in FilterOthers}

FilterFacilitators == {<<"a", "b", "c">>, <<"0", "A", "B", "C">>}

InitFilter ==
    /\ profile \in Profiles
    /\ limit = ConfigLimit(profile)
    /\ facilitatorAddress \in FilterFacilitators
    /\ pc = "filter"
    /\ allEvents = <<>>
    /\ continuationToken = NoToken
    /\ pageCount = 1
    /\ getEventsCalls = 1
    /\ moreDataWarned = FALSE
    /\ window = DefaultWindow
    /\ previous = NoPrevious
    /\ orphans = NoOrphans
    /\ range = DefaultRange
    /\ remote = OnePage(range, limit, <<>>)
    /\ passKind = "none"
    /\ passKeys = <<>>
    /\ units = <<>>
    /\ queue = <<>>
    /\ blockCache = EmptyMap
    /\ txCache = EmptyMap
    /\ transferEvents \in UNION {[1..k -> FilterRecords] : k \in 0..MaxBatchLen}
    /\ result = NoResult
    /\ runError = NoError
    /\ wrapper = Direct
    /\ log = NoLog

SpecFilter == InitFilter /\ [][FilterReturn]_vars

(***************************************************************************)
(* Properties.                                                             *)
(***************************************************************************)
AllRateLimit(u) == \A j \in 1..Len(u.errors) : u.errors[j] = "rateLimit"

\* C1: in retryWithBackoff a failure that does not match the rate-limit
\* signature is rethrown at once, at every attempt index including the last:
\* it is the unit's last failure, no sleep and no invocation follows it, and
\* the unit ends thrown, never null.
C1_NonRateLimitRethrown ==
    \A i \in DOMAIN units : \A j \in 1..Len(units[i].errors) :
        units[i].errors[j] = "other" =>
            /\ units[i].st = "thrown"
            /\ j = Len(units[i].errors)
            /\ units[i].calls = j
            /\ units[i].sleeps = j - 1

\* C2: a lookup whose every attempt fails with a rate-limit error is invoked
\* exactly maxRetries times and then yields null; it does not throw, and no
\* lookup is ever invoked more than maxRetries times.
C2_ExhaustedRateLimitYieldsNull ==
    \A i \in DOMAIN units :
        /\ units[i].calls <= MaxRetries(profile)
        /\ (units[i].st \in {"null", "thrown"} /\ AllRateLimit(units[i])) =>
               /\ units[i].st = "null"
               /\ units[i].calls = MaxRetries(profile)

\* C2's case: a unit that ran out of attempts on rate limits alone.
C2_Witness ==
    \E i \in DOMAIN units :
        /\ units[i].st = "null"
        /\ AllRateLimit(units[i])
        /\ Len(units[i].errors) = MaxRetries(profile)

\* Whether the decoder yields a record for the event.
Decodable(event) ==
    DecodeOne(profile, event, 0, EmptyMap, EmptyMap, facilitatorAddress) \notin {Null, Thrown}

\* C3: while every block lookup has failed (whatever the error), the window
\* run does not throw because of a block lookup, and a finished run's decoded
\* set holds a record for every event that decodes, with the current time as
\* block_timestamp.
C3_BlockLookupFailureKeepsRecords ==
    blockCache = EmptyMap =>
        /\ ~(pc = "aborted" /\ runError.call = "getBlockWithTxHashes")
        /\ pc = "done" =>
               \A n \in 1..Len(allEvents) :
                   Decodable(allEvents[n]) =>
                       \E r \in 1..Len(transferEvents) :
                           /\ transferEvents[r].log_index = n - 1
                           /\ transferEvents[r].block_timestamp = CurrentTime

BlockNumbers(events) == {events[i].block_number : i \in 1..Len(events)}
TxHashes(events) == {events[i].transaction_hash : i \in 1..Len(events)}

\* The keys the events give the pass at work, and the cache it fills.
PassEventKeys == IF passKind = "blocks" THEN BlockNumbers(allEvents) ELSE TxHashes(allEvents)
PassCache == IF passKind = "blocks" THEN blockCache ELSE txCache

KeysIn(states) == {units[i].key : i \in {j \in DOMAIN units : units[j].st \in states}}

\* C4 as stated: after a resolution pass every requested key has an entry in
\* the cache, a key that failed its retries included.
C4_EveryKeyHasEntry ==
    /\ pc \in {"resolveTxs", "done"} => BlockNumbers(allEvents) \subseteq DOMAIN blockCache
    /\ pc = "done" => TxHashes(allEvents) \subseteq DOMAIN txCache

\* C4 amended: the cache of a pass holds exactly the keys whose lookup returned
\* a value, each mapped to the metadata of that key; a key whose lookup ended
\* in null is left out of the map.
C4_CacheHoldsResolvedKeysOnly ==
    /\ passKind # "none" =>
           /\ DOMAIN PassCache = KeysIn({"ok"})
           /\ DOMAIN PassCache \cap KeysIn({"null", "thrown"}) = {}
    /\ \A k \in DOMAIN blockCache : k \in BlockNumbers(allEvents) /\ blockCache[k] = BlockOf(k)
    /\ \A k \in DOMAIN txCache : k \in TxHashes(allEvents) /\ txCache[k] = TxOf(k)

\* C4's case: a pass has ended with a key resolved and a key that failed.
C4_Witness ==
    /\ passKind # "none"
    /\ AllFulfilled(units)
    /\ KeysIn({"ok"}) # {}
    /\ KeysIn({"null"}) # {}
    /\ KeysIn({"null"}) \cap DOMAIN PassCache = {}

AllEnded(us) == \A i \in DOMAIN us : us[i].st \in EndStates

\* C5 as stated: a pass over events with M distinct keys invokes the lookup
\* exactly M times, once per distinct key.
C5_OneCallPerDistinctKey ==
    (passKind # "none" /\ AllEnded(units)) =>
        /\ Len(units) = Cardinality(PassEventKeys)
        /\ \A i \in DOMAIN units : units[i].calls = 1

\* C5 amended: a pass runs one unit per distinct key, and a unit invokes the
\* lookup at most maxRetries times: once, and once more after each backoff.
C5_OneUnitPerKeyBoundedCalls ==
    passKind # "none" =>
        /\ Len(units) = Cardinality(PassEventKeys)
        /\ KeysIn({"queued"} \cup InFlightStates \cup EndStates) = PassEventKeys
        /\ \A i \in DOMAIN units :
               /\ units[i].calls <= (IF profile = "rpc" THEN 3 ELSE 2)
               /\ units[i].st # "queued" => units[i].calls >= 1
               /\ units[i].st \in {"calling"} \cup EndStates =>
                      units[i].calls = units[i].sleeps + 1

\* C5's case: a finished pass over more events than keys, with a retried key.
C5_Witness ==
    /\ passKind # "none"
    /\ AllEnded(units)
    /\ Len(allEvents) > Len(units)
    /\ \E i \in DOMAIN units : units[i].calls > 1
    /\ \E i \in DOMAIN units : units[i].calls = 1

InFlight(us) == {i \in DOMAIN us : us[i].st \in {"calling", "sleeping"}}

\* C6: at most N units are in flight (5 for "rpc", 10 for "apibara"), a unit
\* asleep in its backoff counting as in flight, and a queued unit starts only
\* in a step in which a unit in flight ends.
C6_AtMostNInFlight ==
    [][/\ Cardinality(InFlight(units')) <= (IF profile = "rpc" THEN 5 ELSE 10)
       /\ passKind' = passKind =>
              \A i \in DOMAIN units :
                  (units[i].st = "queued" /\ units'[i].st # "queued") =>
                      \E j \in DOMAIN units :
                          /\ units[j].st \in InFlightStates
                          /\ units'[j].st \in EndStates]_vars

\* C6's case: every slot taken, one of them by a sleeping unit, a unit queued.
C6_Witness ==
    /\ Cardinality(InFlight(units)) = (IF profile = "rpc" THEN 5 ELSE 10)
    /\ \E i \in DOMAIN units : units[i].st = "sleeping"
    /\ queue # <<>>

\* C7: once a pass has handed control back (the run has returned or thrown),
\* every unit of the pass has ended and none is queued.
C7_ControlReturnsAfterAllUnits ==
    (passKind # "none" /\ pc \in {"done", "aborted"}) =>
        AllEnded(units) /\ queue = <<>>

\* C8: a remote call that fails with a rate-limit signature never aborts the
\* window run.
C8_RateLimitNeverAborts == ~(pc = "aborted" /\ runError.rateLimit)

\* C9: after a response, another getEvents query is out exactly if the response
\* carried a token, the accumulated count is below config.limit and fewer than
\* 10 pages were fetched; a window that reaches the loop issues between 1 and
\* 10 queries.
C9_NextQueryIffTokenBelowCaps ==
    /\ getEventsCalls <= 10
    /\ (pc # "estimate" /\ runError.call # "getBlockLatestAccepted") => getEventsCalls >= 1
    /\ pageCount >= 1 =>
           /\ getEventsCalls \in {pageCount, pageCount + 1}
           /\ getEventsCalls = pageCount + 1 <=>
                  /\ continuationToken # NoToken
                  /\ Len(allEvents) < limit
                  /\ pageCount < 10

\* C9's case: the loop stopped by the page cap alone.
C9_Witness ==
    /\ pageCount = 10
    /\ getEventsCalls = 10
    /\ continuationToken # NoToken
    /\ Len(allEvents) < limit

\* The loop has been left: every query issued has been answered.
PaginationOver == pageCount >= 1 /\ getEventsCalls = pageCount

\* C10: the 'more data available' warning has been emitted exactly if the
\* pagination stopped with a continuation token in hand, which only a cap
\* brings about.
C10_TruncationAlwaysFlagged ==
    /\ ~PaginationOver => ~moreDataWarned
    /\ PaginationOver =>
           /\ moreDataWarned <=> continuationToken # NoToken
           /\ moreDataWarned => (Len(allEvents) >= limit \/ pageCount >= 10)

\* C10's case: the results cap stopped a pagination that had more to fetch.
C10_Witness ==
    /\ PaginationOver
    /\ moreDataWarned
    /\ Len(allEvents) >= limit
    /\ pageCount < 10

\* C11 as stated: the events accumulated by a window's pagination never exceed
\* config.limit.
C11_AccumulatedWithinLimit == Len(allEvents) <= limit

\* C12: when the remote has answered k queries, the first k-1 with a token and
\* the k-th without one, k <= 10 and fewer than config.limit events in all,
\* exactly k queries were issued, the loop is over, and the accumulated
\* sequence is the pages' events in the order the remote returned them.
C12_PagesConcatenatedInOrder ==
    (/\ remote.responses >= 1
     /\ remote.responses <= 10
     /\ remote.tokens = remote.responses - 1
     /\ continuationToken = NoToken
     /\ Len(remote.sent) < limit) =>
        /\ getEventsCalls = remote.responses
        /\ pageCount = remote.responses
        /\ pc \notin {"estimate", "paginate"}
        /\ allEvents = remote.sent

\* C12's case: four pages, three with a token and the fourth without, holding
\* two events that arrived in different pages.
C12_Witness ==
    /\ remote.responses = 4
    /\ remote.tokens = 3
    /\ continuationToken = NoToken
    /\ Len(remote.sent) = 2
    /\ remote.sent[1] # remote.sent[2]
    /\ Len(allEvents) < limit
    /\ pc = "parse"

\* C13: every getEvents query asks for chunk_size = min(config.limit, 1000),
\* which never exceeds 1000.
C13_ChunkSizeCapped ==
    getEventsCalls >= 1 =>
        /\ remote.chunk = (IF limit <= 1000 THEN limit ELSE 1000)
        /\ remote.chunk <= 1000

\* C13's case: a follow-up query of a window whose limit is above the ceiling.
C13_Witness ==
    /\ limit > 1000
    /\ pageCount >= 1
    /\ getEventsCalls = pageCount + 1
    /\ remote.chunk = 1000

\* Positions in the decoded set of the records of the event with index n - 1.
RecordsAt(n) == {r \in 1..Len(transferEvents) : transferEvents[r].log_index = n - 1}

IsIndexed(event) == Len(event.keys) >= 3

\* C14: the record of an event with keys.length >= 3 has sender keys[1] and
\* recipient keys[2] and its amount made of data[0] and data[1]; whatever the
\* data holds, an event with keys [sel, 0xaaa, 0xbbb] gives sender 0xaaa and
\* recipient 0xbbb.
C14_IndexedReadsKeys ==
    pc = "done" =>
        \A n \in 1..Len(allEvents) : \A r \in RecordsAt(n) :
            IsIndexed(allEvents[n]) =>
                /\ transferEvents[r].sender = toHex(toBigInt(allEvents[n].keys[2]))
                /\ transferEvents[r].recipient = toHex(toBigInt(allEvents[n].keys[3]))
                /\ allEvents[n].keys[2] = hAAA => transferEvents[r].sender = <<"a", "a", "a">>
                /\ allEvents[n].keys[3] = hBBB => transferEvents[r].recipient = <<"b", "b", "b">>
                /\ Len(allEvents[n].data) >= 2 =>
                       transferEvents[r].amount =
                           Number(u256FromFelts(allEvents[n].data[1], allEvents[n].data[2]))

\* C14's case: an indexed event whose data would also read as the packed form
\* has been decoded.
C14_Witness ==
    /\ pc = "done"
    /\ \E n \in 1..Len(allEvents) :
           /\ IsIndexed(allEvents[n])
           /\ HasData(allEvents[n])
           /\ Len(allEvents[n].data) >= 4
           /\ allEvents[n].data[1] # allEvents[n].keys[2]
           /\ RecordsAt(n) # {}

\* An event of the packed form without the four data felts it needs.
IsShortPacked(event) ==
    ~IsIndexed(event) /\ (~HasData(event) \/ Len(event.data) < 4)

\* C15: an event with keys.length < 3 and fewer than 4 data felts (or no data)
\* has no record, and every later event of the batch that decodes has its own
\* record, the one its decoding alone gives.
C15_ShortPackedSkipped ==
    pc = "done" =>
        \A n \in 1..Len(allEvents) :
            IsShortPacked(allEvents[n]) =>
                /\ RecordsAt(n) = {}
                /\ \A m \in (n + 1)..Len(allEvents) :
                       Decodable(allEvents[m]) =>
                           \E r \in RecordsAt(m) :
                               transferEvents[r] =
                                   DecodeOne(profile, allEvents[m], m - 1, blockCache,
                                             txCache, facilitatorAddress)

\* C15's case: a short packed event followed by an event that has a record.
C15_Witness ==
    /\ pc = "done"
    /\ Len(allEvents) = 2
    /\ IsShortPacked(allEvents[1])
    /\ Len(transferEvents) = 1
    /\ transferEvents[1].log_index = 1

\* C16 as stated: an event with fewer data felts than its format requires,
\* 4 for the packed form and 2 for the indexed form, has no record.
C16_TooFewFeltsNoRecord ==
    pc = "done" =>
        \A n \in 1..Len(allEvents) :
            (/\ HasData(allEvents[n])
             /\ Len(allEvents[n].data) < (IF IsIndexed(allEvents[n]) THEN 2 ELSE 4)) =>
                RecordsAt(n) = {}

\* The u256 the event carries, by the format of the event.
ExactAmount(event) ==
    IF IsIndexed(event)
    THEN u256FromFelts(DataOrZero(event, 0), DataOrZero(event, 1))
    ELSE u256FromFelts(event.data[3], event.data[4])

\* C17 as stated: the amount of every record is exactly low + high * 2^128,
\* and records of distinct u256 amounts have distinct amounts.
C17_AmountExact ==
    pc = "done" =>
        /\ \A r \in 1..Len(transferEvents) :
               transferEvents[r].amount =
                   ExactAmount(allEvents[transferEvents[r].log_index + 1])
        /\ \A r1, r2 \in 1..Len(transferEvents) :
               ExactAmount(allEvents[transferEvents[r1].log_index + 1]) #
                   ExactAmount(allEvents[transferEvents[r2].log_index + 1])
               => transferEvents[r1].amount # transferEvents[r2].amount

\* C18: no decode failure makes the window run throw, and a finished run's
\* decoded set holds one record for each event that decodes and none for the
\* others, in input order.
C18_DecodeFailureSkipsOneEvent ==
    /\ ~(pc = "aborted" /\ runError.call = "decode")
    /\ pc = "done" =>
           /\ \A n \in 1..Len(allEvents) :
                  Cardinality(RecordsAt(n)) = (IF Decodable(allEvents[n]) THEN 1 ELSE 0)
           /\ \A r \in 1..Len(transferEvents) :
                  /\ transferEvents[r].log_index \in 0..(Len(allEvents) - 1)
                  /\ r > 1 => transferEvents[r - 1].log_index < transferEvents[r].log_index

\* C18's case: the first event of a batch threw in a conversion and the second
\* has its record.
C18_Witness ==
    /\ pc = "done"
    /\ Len(allEvents) = 2
    /\ IsIndexed(allEvents[1])
    /\ allEvents[1].keys[2] = NotANumber
    /\ Len(transferEvents) = 1
    /\ transferEvents[1].log_index = 1

\* Whether two hex strings denote the same number.
SameAddress(a, b) == toBigInt(a) = toBigInt(b)

\* C19: the records returned are those of the decoded set whose sender denotes
\* the same address as the configured facilitator, case and leading zeros
\* aside, in their order; recipient and transaction_from play no part.
C19_FilterBySenderOnly ==
    result.returned =>
        /\ result.records =
               SelectSeq(transferEvents,
                         LAMBDA rec : SameAddress(rec.sender, facilitatorAddress))
        /\ facilitatorAddress \in FilterFacilitators =>
               \A r \in 1..Len(result.records) :
                   result.records[r].sender \in
                       {<<"0", "0", "a", "b", "c">>, <<"a", "b", "c">>, <<"A", "B", "C">>}

\* C19's case: sender 0x00abc kept, and sender 0xdef dropped although its
\* transaction_from and recipient are the facilitator.
C19_Witness ==
    /\ pc = "done"
    /\ facilitatorAddress = <<"a", "b", "c">>
    /\ Len(transferEvents) = 2
    /\ transferEvents[1].sender = <<"0", "0", "a", "b", "c">>
    /\ transferEvents[2].sender = <<"d", "e", "f">>
    /\ transferEvents[2].transaction_from = <<"a", "b", "c">>
    /\ transferEvents[2].recipient = <<"a", "b", "c">>
    /\ result.records = <<transferEvents[1]>>

\* C20: the window of the indexed Transfer (0xaaa -> 0xbbb, data [0x64, 0x0])
\* and the packed Transfer (0xccc -> 0xddd, amount 0xc8), for facilitator
\* 0xAAA, returns exactly one record, with amount 100 and sender 0xaaa,
\* whatever came of the block and transaction lookups.
C20_EndToEndOneRecord ==
    (pc = "done" /\ allEvents = <<EvIndexed, EvPacked>>) =>
        /\ Len(result.records) = 1
        /\ result.records[1].amount = Bits(100)
        /\ result.records[1].sender = <<"a", "a", "a">>

\* C20's case: that window has returned after every block lookup ran out of
\* retries and a transaction lookup succeeded.
C20_Witness ==
    /\ pc = "done"
    /\ allEvents = <<EvIndexed, EvPacked>>
    /\ blockCache = EmptyMap
    /\ 1 \in DOMAIN txCache
    /\ result.returned

\* The event a record was decoded from.
EventOf(rec) == allEvents[rec.log_index + 1]

\* Whether the cache holds the event's transaction with a submitter field.
HasSubmitter(event) ==
    /\ event.transaction_hash \in DOMAIN txCache
    /\ \/ txCache[event.transaction_hash].sender_address # NoField
       \/ txCache[event.transaction_hash].account_address # NoField

\* The address the claim names as the source of transaction_from.
SubmitterSource(event) ==
    IF ~HasSubmitter(event) THEN facilitatorAddress
    ELSE IF txCache[event.transaction_hash].sender_address # NoField
    THEN txCache[event.transaction_hash].sender_address
    ELSE txCache[event.transaction_hash].account_address

\* C21 as stated: a record's transaction_from is the configured facilitator
\* address exactly when its transaction is missing from the cache or carries
\* neither sender_address nor account_address.
C21_FacilitatorExactlyWhenNoSubmitter ==
    pc = "done" =>
        \A r \in 1..Len(transferEvents) :
            SameAddress(transferEvents[r].transaction_from, facilitatorAddress)
                <=> ~HasSubmitter(EventOf(transferEvents[r]))

\* C21: every record's transaction_from is the canonical hex of the cached
\* transaction's sender_address if it has one, else of its account_address,
\* else (transaction missing from the cache, or neither field) of the
\* configured facilitator address; its block_timestamp is the cached block's
\* timestamp when the block is cached and the current time otherwise.
C21_SubmitterAndTimestampFromCaches ==
    pc = "done" =>
        \A r \in 1..Len(transferEvents) :
            LET rec == transferEvents[r]
                event == EventOf(rec)
            IN  /\ rec.transaction_from = toHex(toBigInt(SubmitterSource(event)))
                /\ event.block_number \in DOMAIN blockCache =>
                       rec.block_timestamp =
                           [clock |-> "chain",
                            ms |-> blockCache[event.block_number].timestamp * 1000]
                /\ event.block_number \notin DOMAIN blockCache =>
                       rec.block_timestamp = CurrentTime

\* C21's case: one decoded set holds a record whose transaction is missing
\* from the cache, one whose cached transaction has neither field, one read
\* from account_address and one from sender_address, the block uncached.
C21_Witness ==
    /\ pc = "done"
    /\ blockCache = EmptyMap
    /\ \E a, b, c, d \in 1..Len(transferEvents) :
          /\ transferEvents[a].tx_hash \notin DOMAIN txCache
          /\ transferEvents[b].tx_hash \in DOMAIN txCache
          /\ ~HasSubmitter(EventOf(transferEvents[b]))
          /\ transferEvents[b].transaction_from = <<"a", "a", "a">>
          /\ transferEvents[c].tx_hash \in DOMAIN txCache
          /\ transferEvents[c].transaction_from = <<"c", "c", "c">>
          /\ transferEvents[d].tx_hash \in DOMAIN txCache
          /\ txCache[transferEvents[d].tx_hash].sender_address = hAAA
          /\ transferEvents[d].transaction_from = <<"a", "a", "a">>

RECURSIVE SumOf(_)
SumOf(s) == IF s = <<>> THEN 0 ELSE Head(s) + SumOf(Tail(s))

C28_ApibaraSleepsTwice ==
    profile = "apibara" =>
        \A i \in DOMAIN units :
            (units[i].st = "null" /\ AllRateLimit(units[i])) =>
                units[i].delays = <<500, 750>>

\* C24: fetchApibara without APIBARA_ACCESS_TOKEN runs one pipeline; with the
\* token it runs the primary pipeline and, only if that throws, the RPC
\* fallback once; never more than two pipelines run, a primary that threw is
\* always followed by the fallback, and a call whose fallback completed
\* returns its records and no error.
C24_FallbackAtMostOnce ==
    /\ wrapper.runs \in {1, 2}
    /\ ~wrapper.token => wrapper.runs = 1
    /\ wrapper.runs = 1 <=> wrapper.caught = NoError
    /\ (wrapper.token /\ pc = "aborted") => wrapper.runs = 2
    /\ (wrapper.runs = 2 /\ pc = "done") => (result.returned /\ runError = NoError)

\* C24's case: the primary pipeline threw in getEvents and the fallback has
\* returned a record.
C24_Witness ==
    /\ wrapper.token
    /\ wrapper.runs = 2
    /\ wrapper.caught.call = "getEvents"
    /\ pc = "done"
    /\ result.returned
    /\ Len(result.records) = 1

\* C23 as stated: once a getEvents call has failed, at any of the three entry
\* points, the window run has ended aborted with no getEvents call and no
\* lookup issued after the failure.
C23_FailedGetEventsEndsRun ==
    (runError.call = "getEvents" \/ wrapper.caught.call = "getEvents") =>
        /\ pc = "aborted"
        /\ units = <<>>
        /\ getEventsCalls = pageCount + 1

\* C23: a failing getEvents is not retried by the pipeline it failed in: that
\* pipeline throws with the failing call its last getEvents call and without
\* a lookup issued, and nothing happens after a throw that reaches the caller.
\* That ends the window run in fetchStarknetRpc and in fetchApibara without
\* an access token; with a token the failure of the primary pipeline is
\* caught and the RPC fallback pipeline starts, which queries getEvents anew.
C23_FailedGetEventsNotRetriedInPipeline ==
    /\ [](remote.failed <= 1)
    /\ [](remote.failed = 1 <=> runError.call = "getEvents")
    /\ [](runError.call = "getEvents" =>
              /\ pc = "aborted"
              /\ units = <<>>
              /\ blockCache = EmptyMap /\ txCache = EmptyMap
              /\ getEventsCalls = pageCount + 1
              /\ result = NoResult
              /\ wrapper.token => wrapper.runs = 2)
    /\ [](wrapper.caught.call = "getEvents" => (wrapper.token /\ wrapper.runs = 2))
    /\ [][runError.call = "getEvents" => UNCHANGED vars]_vars
    /\ [][(pc = "paginate" /\ pc' = "estimate") =>
              /\ wrapper.token /\ wrapper.runs = 1 /\ wrapper'.runs = 2
              /\ getEventsCalls' = 0 /\ units' = <<>>]_vars

\* C23's case: getEvents failed on the second query of a pipeline that runs
\* without a fallback, and the run is aborted.
C23_Witness ==
    /\ runError.call = "getEvents"
    /\ wrapper = Direct
    /\ pc = "aborted"
    /\ pageCount = 1
    /\ getEventsCalls = 2

\* C22: a window run whose facilitator configuration has no address fails at
\* its start: no getEvents query and no lookup is ever issued, and the remote
\* sees no traffic.
C22_ConfigErrorBeforeRemoteCalls ==
    FilterThrows(facilitatorAddress) =>
        /\ pc \in {"estimate", "aborted"}
        /\ getEventsCalls = 0
        /\ remote = NoTraffic
        /\ units = <<>>

\* C25: a window run hands back a record set only once pagination, both
\* resolution passes, decoding and filtering have completed, and the set is
\* the filter of the decoding of all accumulated events; a run that failed
\* hands back nothing, and a result once returned does not change.
C25_ResultOnlyAfterAllPhases ==
    /\ [](result.returned =>
              /\ pc = "done"
              /\ runError = NoError
              /\ PaginationOver
              /\ AllEnded(units) /\ queue = <<>>
              /\ transferEvents = DecodeLoop(profile, allEvents, Len(allEvents),
                                             blockCache, txCache, facilitatorAddress)
              /\ result.records = FilterByFacilitator(transferEvents, facilitatorAddress))
    /\ [](pc # "done" => result = NoResult)
    /\ [](pc = "done" => result.returned)
    /\ [][result.returned => UNCHANGED result]_vars

\* C25's case: a run of two pages returned its one record after every block
\* lookup ran out of retries.
C25_Witness ==
    /\ pc = "done"
    /\ result.returned
    /\ pageCount = 2
    /\ Len(allEvents) = 3
    /\ Len(result.records) = 1
    /\ blockCache = EmptyMap

UsedFallback(rec) ==
    \/ EventOf(rec).block_number \notin DOMAIN blockCache
    \/ EventOf(rec).transaction_hash \notin DOMAIN txCache

\* C29: no fallback is silent.  A lookup given up after its retries has
\* written a retry-exhausted entry, and a finished run has written a
\* fallback entry for every record decoded with a fallback value.
C29_NoSilentFallback ==
    /\ log.retryExhausted >= Cardinality({i \in DOMAIN units : units[i].st = "null"})
    /\ pc = "done" =>
           log.fallbackUsed >=
               Cardinality({r \in 1..Len(transferEvents) : UsedFallback(transferEvents[r])})

\* C30: every event left out because its decoding failed has a log entry: a
\* finished run has written as many decode-failure entries as there are input
\* events without a decoded record, in both helpers.
C30_DecodeFailuresAllLogged ==
    pc = "done" => log.decodeFailure = Len(allEvents) - Len(transferEvents)

\* The units of the pass at work that have written their value.
Writers(k) == {i \in DOMAIN units : units[i].key = k /\ units[i].st = "ok"}

\* C31: in every state of a resolution pass each cache key has been written
\* at most once (one writer per key, and an entry once written is neither
\* replaced nor removed while its pass or the decoding goes on), the keys of
\* either cache are among the distinct keys of the fetched events, and the
\* value under key k is the answer to the lookup of k, whatever the order in
\* which the lookups complete.
C31_CacheWrittenOncePerKey ==
    /\ [](passKind # "none" =>
              /\ \A k \in PassEventKeys : Cardinality(Writers(k)) <= 1
              /\ \A k \in DOMAIN PassCache : Cardinality(Writers(k)) = 1)
    /\ [](/\ DOMAIN blockCache \subseteq BlockNumbers(allEvents)
          /\ DOMAIN txCache \subseteq TxHashes(allEvents))
    /\ [](/\ \A k \in DOMAIN blockCache : blockCache[k].block_number = k
          /\ \A h \in DOMAIN txCache : txCache[h].transaction_hash = h)
    /\ [][/\ \A k \in DOMAIN blockCache :
                 k \in DOMAIN blockCache' /\ blockCache'[k] = blockCache[k]
          /\ \A h \in DOMAIN txCache :
                 h \in DOMAIN txCache' /\ txCache'[h] = txCache[h]
          /\ Cardinality(DOMAIN blockCache') + Cardinality(DOMAIN txCache')
                 <= Cardinality(DOMAIN blockCache) + Cardinality(DOMAIN txCache) + 1]_vars

\* C31's case: the lookups of a pass completed out of key order (key 3 was
\* stored before key 1, which was retried) and each value sits under its key.
C31_Witness ==
    /\ passKind = "blocks"
    /\ \E i, j \in DOMAIN units :
          /\ units[i].key = 1 /\ units[i].st = "ok" /\ units[i].sleeps >= 1
          /\ units[j].key = 3 /\ units[j].st = "ok" /\ units[j].sleeps = 0
    /\ {1, 3} \subseteq DOMAIN blockCache
    /\ 2 \notin DOMAIN blockCache
    /\ blockCache[1] = BlockOf(1)
    /\ blockCache[3] = BlockOf(3)

\* The value the remote answers the lookup of key k with, in the pass at work.
AnswerFor(k) == IF passKind = "blocks" THEN BlockOf(k) ELSE TxOf(k)

\* C39: a lookup that failed with rate-limit errors on its first j attempts
\* (j < maxRetries) and then succeeded has been invoked exactly j + 1 times
\* with j sleeps, is not invoked again, and its value is in the cache under
\* its key.
C39_SuccessAfterRetries ==
    /\ [](\A i \in DOMAIN units :
              units[i].st = "ok" =>
                  LET j == Len(units[i].errors)
                  IN  /\ AllRateLimit(units[i])
                      /\ j < MaxRetries(profile)
                      /\ units[i].calls = j + 1
                      /\ units[i].sleeps = j
                      /\ units[i].key \in DOMAIN PassCache
                      /\ PassCache[units[i].key] = AnswerFor(units[i].key))
    /\ [][\A i \in DOMAIN units :
              (units[i].st = "ok" /\ passKind' = passKind /\ pc' # "estimate") =>
                  (i \in DOMAIN units' /\ units'[i] = units[i])]_vars

\* C39's case: an RPC lookup succeeded on its third attempt, after two
\* rate-limit failures, and its value is cached.
C39_Witness ==
    /\ profile = "rpc"
    /\ \E i \in DOMAIN units :
          /\ units[i].st = "ok"
          /\ units[i].errors = <<"rateLimit", "rateLimit">>
          /\ units[i].calls = 3
          /\ units[i].sleeps = 2
          /\ units[i].key \in DOMAIN PassCache

\* C38: in the returned record set every record's log_index is the position
\* of its event in the accumulated sequence (the record is the decoding of
\* the event at that position), the log_index values are pairwise distinct and
\* strictly increasing along the array, and the set is no larger than the
\* fetched sequence.
C38_LogIndexIsPosition ==
    pc = "done" =>
        /\ Len(result.records) <= Len(allEvents)
        /\ \A r \in 1..Len(result.records) :
               LET rec == result.records[r]
                   n == rec.log_index + 1
               IN  /\ n \in 1..Len(allEvents)
                   /\ rec = DecodeOne(profile, allEvents[n], n - 1, blockCache, txCache,
                                      facilitatorAddress)
                   /\ r > 1 => result.records[r - 1].log_index < rec.log_index
        /\ \A r, q \in 1..Len(result.records) :
               r # q => result.records[r].log_index # result.records[q].log_index

\* C38's case: the first event of the window gave no record and the record
\* returned for the second carries log_index 1.
C38_Witness ==
    /\ pc = "done"
    /\ Len(allEvents) = 2
    /\ Len(result.records) = 1
    /\ result.records[1].log_index = 1

\* C34: the two decoders are equivalent: for every raw event and every cache
\* content either both yield no record or both yield the same record, so the
\* set a finished run decoded is the set the other decoder yields from the
\* same events and caches.
C34_DecodersEquivalent ==
    pc = "done" =>
        /\ \A n \in 1..Len(allEvents) :
               Caught(parseTransferEventWithCache(allEvents[n], n - 1, blockCache,
                                                  txCache, facilitatorAddress))
                   = Caught(parseTransferEvent(allEvents[n], n - 1, blockCache,
                                               txCache, facilitatorAddress))
        /\ transferEvents = DecodeLoop("rpc", allEvents, Len(allEvents), blockCache,
                                       txCache, facilitatorAddress)
        /\ transferEvents = DecodeLoop("apibara", allEvents, Len(allEvents), blockCache,
                                       txCache, facilitatorAddress)

RECURSIVE TotalCalls(_)
TotalCalls(us) == IF us = <<>> THEN 0 ELSE Head(us).calls + TotalCalls(Tail(us))

\* C37: provided every remote call returns or fails, a resolution pass over K
\* distinct keys finishes, after at most maxRetries * K lookup invocations
\* (3 per key in the RPC helper, 2 per key in the Apibara helper): from some
\* point on every unit has ended, with none left queued, sleeping or calling.
C37_PassTerminatesWithinBudget ==
    /\ [](passKind # "none" =>
              /\ TotalCalls(units) <= MaxRetries(profile) * Cardinality(PassEventKeys)
              /\ \A i \in DOMAIN units :
                     units[i].calls <= (IF profile = "rpc" THEN 3 ELSE 2))
    /\ <>[](AllEnded(units) /\ queue = <<>>)

\* C37's case: a pass whose limiter had units queued has finished with a key
\* that used all its invocations.
C37_Witness ==
    /\ pc = "resolveBlocks"
    /\ Len(units) > Concurrency(profile)
    /\ AllEnded(units)
    /\ queue = <<>>
    /\ \E i \in DOMAIN units : units[i].calls = MaxRetries(profile)
    /\ TotalCalls(units) > Len(units)

(***************************************************************************)
(* Block-range estimation.                                                 *)
(***************************************************************************)

\* floor(ms / 1000 / 6), characterised by the interval ms falls in.
IsFloorOfBlocks(q, ms) == 6000 * q <= ms /\ ms < 6000 * (q + 1)

OffsetCandidates == -4..4

\* C36: for a window with since <= now and every latest block number, the
\* estimated range satisfies 0 <= fromBlock <= toBlock; when now is not later
\* than the wall clock, toBlock <= latest; and each bound is
\* max(0, latest - floor(elapsedMs / 1000 / 6)) for the time elapsed since the
\* window's bound.
C36_BlockRangeEstimated ==
    range # NoRange =>
        /\ window.since <= window.now
        /\ 0 <= range.fromBlock
        /\ range.fromBlock <= range.toBlock
        /\ (window.now <= range.readNow => range.toBlock <= range.latest)
        /\ \E q \in OffsetCandidates :
              /\ IsFloorOfBlocks(q, range.readNow - window.now)
              /\ range.toBlock = (IF range.latest - q >= 0 THEN range.latest - q ELSE 0)
        /\ \E q \in OffsetCandidates :
              /\ IsFloorOfBlocks(q, range.readSince - window.since)
              /\ range.fromBlock = (IF range.latest - q >= 0 THEN range.latest - q ELSE 0)

\* A chain shorter than the window: fromBlock is clamped to 0 while toBlock
\* lies strictly between 0 and the latest block.
C36_Witness ==
    /\ pc = "paginate"
    /\ window.since < window.now
    /\ range.readSince - window.since >= 6000 * (range.latest + 1)
    /\ range.fromBlock = 0
    /\ range.toBlock > 0
    /\ range.toBlock < range.latest

(***************************************************************************)
(* Continuation tokens and query parameters.                               *)
(***************************************************************************)

\* C32: the first getEvents query of a window carries no continuation token,
\* every later query carries the token of the response just before it, and
\* all queries of the window have the same from_block, to_block, address,
\* selector key and chunk_size.
C32_QueriesChainTokens ==
    /\ remote.chained
    /\ (pc = "paginate" => continuationToken = remote.gave)
    /\ (getEventsCalls = 0 => remote.filters = {})
    /\ (getEventsCalls >= 1 =>
          remote.filters =
              {[from_block |-> range.fromBlock, to_block |-> range.toBlock,
                address |-> TokenAddress, keys |-> <<<<Selector>>>>,
                chunk_size |-> IF limit <= 1000 THEN limit ELSE 1000]})

\* The third query of a window is outstanding, after two responses that each
\* carried a token.
C32_Witness ==
    /\ pc = "paginate"
    /\ pageCount = 2
    /\ getEventsCalls = 3
    /\ remote.tokens = 2
    /\ remote.gave = "tokB"
    /\ remote.chained
    /\ Cardinality(remote.filters) = 1

(***************************************************************************)
(* The deduplication key across runs.                                      *)
(***************************************************************************)

\* The raw event a record of a run was decoded from.
RawOf(events, rec) == events[rec.log_index + 1]

\* C33: the deduplication key of a returned record is determined by the
\* event alone: when two runs return a record of the same on-chain event, the
\* two records carry the same log_index.
C33_LogIndexStableAcrossRuns ==
    (previous.ran /\ pc = "done") =>
        \A i \in DOMAIN previous.records, j \in DOMAIN result.records :
            RawOf(previous.events, previous.records[i]) = RawOf(allEvents, result.records[j])
                => previous.records[i].log_index = result.records[j].log_index

(***************************************************************************)
(* Lookups in flight across the primary and the fallback pipeline.         *)
(***************************************************************************)

\* Lookups of the call that occupy a slot of a limiter: the running
\* pipeline's and those the abandoned primary still runs.
LookupsInFlight == Cardinality(InFlight(units)) + orphans.calling + orphans.sleeping

\* C35: at every instant of one fetchApibara call, the fallback included, at
\* most 10 lookups issued by that call are in flight against the remote.
C35_AtMostTenInFlightPerCall == LookupsInFlight <= ApibaraConcurrency

====
